---------------------------- MODULE Spec2Model ----------------------------
(***************************************************************************)
(* Document Coordination Service of the queue-processor worker.            *)
(*                                                                         *)
(* DocumentCoordinator is a Durable Object: every instance (one per name   *)
(* given to idFromName) owns a private key-value storage holding           *)
(*   lock:<documentId>   -> DocumentLock                                   *)
(*   state:<documentId>  -> ProcessingState                                *)
(*   hash:<contentHash>  -> documentId                                     *)
(* and serves one request at a time.  Time is Date.now() in milliseconds.  *)
(***************************************************************************)
EXTENDS Integers, Sequences, FiniteSets, TLC

(* ------------------------------ bounds -------------------------------- *)
\* number of clock advances in one behaviour
MaxTicks == 2
\* number of lock ids crypto.randomUUID() hands out in one behaviour
MaxLockIds == 2
\* number of clock advances while messages are processed
MaxPipeTicks == 1
\* number of messages a batch has beyond the concurrency of its queue
MaxExtra == 1
\* number of document ids in a batch-reprocess payload
MaxDocuments == 6

(* ------------------------- program constants --------------------------- *)
\* milliseconds per second: `ttlSeconds * 1000`
MsPerSecond == 1000
\* `ttlSeconds = 300` default of handleAcquireLock
DefaultTtlSeconds == 300

(* ------------------------------ domains -------------------------------- *)
Docs == {"d1", "d2"}
Workers == {"w1", "w2"}
LockTypes == {"processing", "updating", "deleting"}
Hashes == {"h1", "h2"}
\* one clock advance, in milliseconds
TickStep == MsPerSecond
\* the ttlSeconds field of a request: <<n>>, or Omitted when the request
\* has no such field
Omitted == <<>>
TtlInputs == {<<1>>, Omitted}
\* lockType values a request carries
LockTypeInputs == {"processing", "updating"}

\* names of coordinator instances: idFromName(documentId) and the
\* instance the administrative cleanup addresses
CleanupTrigger == "cleanup-trigger"
Insts == Docs \cup {CleanupTrigger}

\* storage.get of a key that was never put
NoLock == [absent |-> TRUE]
NoState == [absent |-> TRUE]
NoDoc == "<undefined>"
NoParam == "<missing>"

VARIABLES
    now,          \* Date.now()
    storage,      \* storage[inst]: the key-value storage of one coordinator
    nextLockId,   \* the next value of crypto.randomUUID()
    last,         \* the last request served: what storage.get found for
                  \* it and how it was answered
    firstDedup,   \* firstDedup[inst][h]: the documentId of the first
                  \* deduplicate request that instance served for hash h

    msg,          \* msg[m]: the body of a delivered document-ingestion
                  \* message and the batch that carries it
    inv,          \* inv[m]: the invocation of processDocumentIngestion for
                  \* message m: where it stands and its local variables

    scan,         \* the handleCleanup call in progress: its `now`, its
                  \* storage.list() result and the entries not yet visited
    delivery,     \* the MessageBatch given to queueHandler
    handler,      \* the queue handler serving it: its position and locals
    stage,        \* stage[i]: message i of the batch is queued, running
                  \* (its processor was called) or done
    disp,         \* disp[i]: the ack() and retry() calls made on message i

    job,          \* the call of processBatchReprocess in progress: its
                  \* payload, its locals and its result
    hook          \* the call of processWebhookSync: its payload, what the
                  \* remote fetch did and its result

processors == <<job, hook>>
dispatch == <<delivery, handler, stage, disp, processors>>
pipe == <<msg, inv, scan, dispatch>>
vars == <<now, storage, nextLockId, last, firstDedup, msg, inv,
          scan, delivery, handler, stage, disp, job, hook>>

EmptyStorage ==
    [lock  |-> [d \in Docs |-> NoLock],
     state |-> [d \in Docs |-> NoState],
     hash  |-> [h \in Hashes |-> NoDoc]]

(* ------------------------ DocumentCoordinator -------------------------- *)

\* `const { ..., ttlSeconds = 300, ... } = await request.json()`
TtlOf(ttlIn) == IF ttlIn = Omitted THEN DefaultTtlSeconds ELSE ttlIn[1]

\* `7 * 24 * 60 * 60 * 1000`: the retention of processing states, in ms
RetentionMs == 7 * 24 * 60 * 60 * 1000

\* a record counted as held whatever its expiry
LockHeldIgnoringExpiry(existingLock, t) == existingLock # NoLock

\* `existingLock && existingLock.expiresAt > Date.now()`
LockHeld(existingLock, t) ==
    existingLock # NoLock /\ existingLock.expiresAt > t

\* the owner comparison left out
SameWorkerUnchecked(existingLock, workerId) == TRUE

\* `existingLock.workerId === workerId`
SameWorker(existingLock, workerId) == existingLock.workerId = workerId

\* the extension rebuilt from the request instead of spread from the
\* stored record
ExtendLockRebuilt(existingLock, ttlSeconds, t) ==
    [existingLock EXCEPT !.acquiredAt = t,
                         !.expiresAt = t + ttlSeconds * MsPerSecond]

\* `{ ...existingLock, expiresAt: Date.now() + ttlSeconds * 1000 }`
ExtendLock(existingLock, ttlSeconds, t) ==
    [existingLock EXCEPT !.expiresAt = t + ttlSeconds * MsPerSecond]

\* `const newLock: DocumentLock = {...}`
NewLock(documentId, lockType, ttlSeconds, workerId, t, uuid) ==
    [documentId |-> documentId,
     lockId     |-> uuid,
     lockType   |-> lockType,
     acquiredAt |-> t,
     expiresAt  |-> t + ttlSeconds * MsPerSecond,
     workerId   |-> workerId]

\* handleAcquireLock: the storage after the call and the response
AcquireLock(st, documentId, lockType, ttlIn, workerId, t, uuid) ==
    LET ttlSeconds == TtlOf(ttlIn)
        existingLock == st.lock[documentId]
    IN  IF LockHeld(existingLock, t)
        THEN IF SameWorker(existingLock, workerId)
             THEN LET updatedLock == ExtendLock(existingLock, ttlSeconds, t)
                  IN  [storage |-> [st EXCEPT !.lock[documentId] = updatedLock],
                       status  |-> 200,
                       body    |-> [success |-> TRUE,
                                    lock    |-> updatedLock,
                                    action  |-> "extended"]]
             ELSE [storage |-> st,
                   status  |-> 409,
                   body    |-> [success |-> FALSE,
                                error   |-> "Document is locked by another worker",
                                existingLock |->
                                    [workerId  |-> existingLock.workerId,
                                     lockType  |-> existingLock.lockType,
                                     expiresAt |-> existingLock.expiresAt]]]
        ELSE LET newLock == NewLock(documentId, lockType, ttlSeconds,
                                    workerId, t, uuid)
             IN  [storage |-> [st EXCEPT !.lock[documentId] = newLock],
                  status  |-> 200,
                  body    |-> [success |-> TRUE,
                               lock    |-> newLock,
                               action  |-> "acquired"]]

\* only the worker compared
ReleaseMismatchWorkerOnly(existingLock, lockId, workerId) ==
    existingLock.workerId # workerId

\* `existingLock.lockId !== lockId || existingLock.workerId !== workerId`
ReleaseMismatch(existingLock, lockId, workerId) ==
    existingLock.lockId # lockId \/ existingLock.workerId # workerId

\* a release that deletes every lock of the worker in the storage
ReleaseLockOfWorker(st, documentId, lockId, workerId) ==
    LET existingLock == st.lock[documentId]
    IN  IF existingLock = NoLock
        THEN [storage |-> st, status |-> 404, body |-> [success |-> FALSE]]
        ELSE IF ReleaseMismatch(existingLock, lockId, workerId)
        THEN [storage |-> st, status |-> 403, body |-> [success |-> FALSE]]
        ELSE [storage |-> [st EXCEPT !.lock =
                             [d \in DOMAIN st.lock |->
                                IF st.lock[d] # NoLock /\ st.lock[d].workerId = workerId
                                THEN NoLock ELSE st.lock[d]]],
              status  |-> 200,
              body    |-> [success |-> TRUE]]

\* handleReleaseLock
ReleaseLock(st, documentId, lockId, workerId) ==
    LET existingLock == st.lock[documentId]
    IN  IF existingLock = NoLock
        THEN [storage |-> st, status |-> 404, body |-> [success |-> FALSE]]
        ELSE IF ReleaseMismatch(existingLock, lockId, workerId)
        THEN [storage |-> st, status |-> 403, body |-> [success |-> FALSE]]
        ELSE [storage |-> [st EXCEPT !.lock[documentId] = NoLock],
              status  |-> 200,
              body    |-> [success |-> TRUE]]

\* `<` for `<=`
NotLockedStrict(existingLock, t) ==
    existingLock = NoLock \/ existingLock.expiresAt < t

\* `!existingLock || existingLock.expiresAt <= Date.now()`
NotLocked(existingLock, t) ==
    existingLock = NoLock \/ existingLock.expiresAt <= t

\* handleCheckLock
CheckLock(st, documentId, t) ==
    IF documentId = NoParam
    THEN [storage |-> st, status |-> 400, body |-> [locked |-> FALSE]]
    ELSE LET existingLock == st.lock[documentId]
         IN  IF NotLocked(existingLock, t)
             THEN [storage |-> st, status |-> 200,
                   body |-> [locked |-> FALSE]]
             ELSE [storage |-> st, status |-> 200,
                   body |-> [locked |-> TRUE, lock |-> existingLock]]

\* the hash never reported as taken
OwnedByOtherNever(existingDocId, documentId) == FALSE

\* the owner compared with nobody
OwnedByOtherAnyOwner(existingDocId, documentId) == existingDocId # NoDoc

\* `existingDocId && existingDocId !== documentId`
OwnedByOther(existingDocId, documentId) ==
    existingDocId # NoDoc /\ existingDocId # documentId

\* handleDeduplication
Deduplicate(st, documentId, contentHash) ==
    LET existingDocId == st.hash[contentHash]
    IN  IF OwnedByOther(existingDocId, documentId)
        THEN [storage |-> st,
              status  |-> 200,
              body    |-> [isDuplicate |-> TRUE,
                           existingDocumentId |-> existingDocId,
                           contentHash |-> contentHash,
                           action |-> "skip"]]
        ELSE [storage |-> [st EXCEPT !.hash[contentHash] = documentId],
              status  |-> 200,
              body    |-> [isDuplicate |-> FALSE,
                           existingDocumentId |-> NoDoc,
                           contentHash |-> contentHash,
                           action |-> "create_new"]]

\* the stored record replaced by the update, nothing kept
MergeStateReplacing(existingState, stateUpdate, t) ==
    [k \in DOMAIN stateUpdate \cup {"lastUpdatedAt"} |->
        IF k = "lastUpdatedAt" THEN t ELSE stateUpdate[k]]

\* the lastUpdatedAt of the update kept when it has one
MergeStateClientClock(existingState, stateUpdate, t) ==
    LET kept == IF existingState = NoState THEN {} ELSE DOMAIN existingState
    IN  [k \in kept \cup DOMAIN stateUpdate \cup {"lastUpdatedAt"} |->
            IF k \in DOMAIN stateUpdate THEN stateUpdate[k]
            ELSE IF k = "lastUpdatedAt" THEN t
            ELSE existingState[k]]

\* `{ ...existingState, ...stateUpdate, lastUpdatedAt: Date.now() }`: a
\* state is a function from the names of the fields it has to their values
MergeState(existingState, stateUpdate, t) ==
    LET kept == IF existingState = NoState THEN {} ELSE DOMAIN existingState
    IN  [k \in kept \cup DOMAIN stateUpdate \cup {"lastUpdatedAt"} |->
            IF k = "lastUpdatedAt" THEN t
            ELSE IF k \in DOMAIN stateUpdate THEN stateUpdate[k]
            ELSE existingState[k]]

\* an update that also drops the lock of the document
UpdateStateUnlocking(st, stateUpdate, t) ==
    LET updatedState == MergeState(st.state[stateUpdate.documentId], stateUpdate, t)
    IN  [storage |-> [st EXCEPT !.state[stateUpdate.documentId] = updatedState,
                                !.lock[stateUpdate.documentId] = NoLock],
         status  |-> 200,
         body    |-> [success |-> TRUE, state |-> updatedState]]

\* handleUpdateState
UpdateState(st, stateUpdate, t) ==
    LET existingState == st.state[stateUpdate.documentId]
        updatedState  == MergeState(existingState, stateUpdate, t)
    IN  [storage |-> [st EXCEPT !.state[stateUpdate.documentId] = updatedState],
         status  |-> 200,
         body    |-> [success |-> TRUE, state |-> updatedState]]

\* the hash branch of the scan deleting what it counts
CleanupDeletingHashes(st, t) ==
    [storage |-> [st EXCEPT !.hash = [h \in Hashes |-> NoDoc]],
     status  |-> 200,
     body    |-> [success |-> TRUE, expiredLocks |-> 0, oldStates |-> 0,
                  oldHashes |-> Cardinality({h \in Hashes : st.hash[h] # NoDoc})]]

\* every lock record taken for expired
LockExpiredAlways(lock, t) == TRUE

\* `lock.expiresAt <= now` of handleCleanup
LockExpired(lock, t) == lock.expiresAt <= t

\* a state of exactly 7 days taken for old
StateOldInclusive(state, t) == state.lastUpdatedAt <= t - RetentionMs

\* `state.lastUpdatedAt < now - 7 * 24 * 60 * 60 * 1000` of handleCleanup
StateOld(state, t) == state.lastUpdatedAt < t - RetentionMs

\* handleCleanup: the scan over storage.list()
Cleanup(st, t) ==
    LET expired == {d \in Docs : st.lock[d] # NoLock /\ LockExpired(st.lock[d], t)}
        old     == {d \in Docs : st.state[d] # NoState /\ StateOld(st.state[d], t)}
        hashes  == {h \in Hashes : st.hash[h] # NoDoc}
    IN  [storage |-> [st EXCEPT
                         !.lock  = [d \in Docs |-> IF d \in expired THEN NoLock
                                                   ELSE st.lock[d]],
                         !.state = [d \in Docs |-> IF d \in old THEN NoState
                                                   ELSE st.state[d]]],
         status  |-> 200,
         body    |-> [success |-> TRUE,
                      expiredLocks |-> Cardinality(expired),
                      oldStates |-> Cardinality(old),
                      oldHashes |-> Cardinality(hashes)]]

(* ----------------------- requests to a coordinator --------------------- *)

\* the `action` field of a response body, "" when the body has none
ActionOf(op, r) ==
    IF op = "acquire-lock" /\ r.status = 200 THEN r.body.action
    ELSE IF op = "deduplicate" THEN r.body.action
    ELSE ""

\* what the request found under lock:<documentId>
FoundLock(st, documentId, workerId, t) ==
    IF documentId = NoParam \/ st.lock[documentId] = NoLock THEN "absent"
    ELSE IF st.lock[documentId].expiresAt <= t THEN "expired"
    ELSE IF st.lock[documentId].workerId = workerId THEN "own"
    ELSE "other"

\* what the request found under hash:<contentHash>
FoundHash(st, documentId, contentHash) ==
    IF st.hash[contentHash] = NoDoc THEN "absent"
    ELSE IF st.hash[contentHash] = documentId THEN "own"
    ELSE "other"

Served(op, inst, r, found) ==
    /\ storage' = [storage EXCEPT ![inst] = r.storage]
    /\ last' = [op |-> op, status |-> r.status, action |-> ActionOf(op, r),
                found |-> found]

AcquireLockReq(inst, documentId, lockType, ttlIn, workerId) ==
    LET r == AcquireLock(storage[inst], documentId, lockType, ttlIn,
                         workerId, now, nextLockId)
        fresh == r.status = 200 /\ r.body.action = "acquired"
    IN  /\ fresh => nextLockId <= MaxLockIds
        /\ Served("acquire-lock", inst, r,
                  FoundLock(storage[inst], documentId, workerId, now))
        /\ nextLockId' = IF fresh THEN nextLockId + 1 ELSE nextLockId
        /\ UNCHANGED <<now, firstDedup, pipe>>

ReleaseLockReq(inst, documentId, lockId, workerId) ==
    /\ Served("release-lock", inst,
              ReleaseLock(storage[inst], documentId, lockId, workerId),
              FoundLock(storage[inst], documentId, workerId, now))
    /\ UNCHANGED <<now, nextLockId, firstDedup, pipe>>

CheckLockReq(inst, documentId) ==
    /\ Served("check-lock", inst,
              CheckLock(storage[inst], documentId, now),
              FoundLock(storage[inst], documentId, NoParam, now))
    /\ UNCHANGED <<now, nextLockId, firstDedup, pipe>>

DeduplicateReq(inst, documentId, contentHash) ==
    /\ Served("deduplicate", inst,
              Deduplicate(storage[inst], documentId, contentHash),
              FoundHash(storage[inst], documentId, contentHash))
    /\ firstDedup' = IF firstDedup[inst][contentHash] = NoDoc
                     THEN [firstDedup EXCEPT ![inst][contentHash] = documentId]
                     ELSE firstDedup
    /\ UNCHANGED <<now, nextLockId, pipe>>

\* what the scan of a cleanup met: an entry it deleted, or none
FoundReapable(r) ==
    IF r.body.expiredLocks + r.body.oldStates > 0 THEN "reaped" ELSE "absent"

CleanupReq(inst) ==
    /\ Served("cleanup", inst, Cleanup(storage[inst], now),
              FoundReapable(Cleanup(storage[inst], now)))
    /\ UNCHANGED <<now, nextLockId, firstDedup, pipe>>

\* what the request found under state:<documentId>
FoundState(st, documentId) ==
    IF st.state[documentId] = NoState THEN "absent" ELSE "present"

UpdateStateReq(inst, stateUpdate) ==
    /\ Served("update-state", inst,
              UpdateState(storage[inst], stateUpdate, now),
              FoundState(storage[inst], stateUpdate.documentId))
    /\ UNCHANGED <<now, nextLockId, firstDedup, pipe>>

\* the clock advances between two requests
Tick ==
    /\ now + TickStep <= MaxTicks * TickStep
    /\ now' = now + TickStep
    /\ last' = [op |-> "tick", status |-> 0, action |-> "", found |-> "absent"]
    /\ UNCHANGED <<storage, nextLockId, firstDedup, pipe>>

InitCoordinators ==
    /\ now = 0
    /\ storage = [i \in Insts |-> EmptyStorage]
    /\ nextLockId = 1
    /\ last = [op |-> "init", status |-> 0, action |-> "", found |-> "absent"]
    /\ firstDedup = [i \in Insts |-> [h \in Hashes |-> NoDoc]]

\* no cleanup is in progress
NoScan == [pc |-> "idle", now |-> 0, listed |-> EmptyStorage, todo |-> {}]
\* no batch was delivered
NoBatch == [queue |-> "<none>", size |-> 0, attempts |-> 0]
NoHandler ==
    [pc |-> "idle", from |-> 0, successCount |-> 0, failureCount |-> 0,
     invoked |-> 0, error |-> NoDoc]

\* processBatchReprocess was not called
NoJob ==
    [pc |-> "idle", documentIds |-> <<>>, reason |-> "", failing |-> {},
     attempts |-> 0, i |-> 0, successCount |-> 0, failureCount |-> 0,
     errors |-> <<>>, processed |-> <<>>, result |-> <<>>, disposition |-> ""]
\* processWebhookSync was not called
NoHook ==
    [pc |-> "idle", sourceType |-> "", eventType |-> "", fetch |-> "",
     metadataSourceType |-> "", attempts |-> 0, fetched |-> 0, queued |-> <<>>, result |-> <<>>,
     disposition |-> ""]

\* no cleanup runs and no batch was delivered
Idle ==
    /\ scan = NoScan
    /\ delivery = NoBatch
    /\ handler = NoHandler
    /\ stage = <<>>
    /\ disp = <<>>

Quiet ==
    /\ Idle
    /\ job = NoJob
    /\ hook = NoHook

(* ----------------- DocumentProcessor.processDocumentIngestion ---------- *)

\* delivered messages and the batches (one handleDocumentIngestion call
\* each) that carry them
Msgs == {"m1", "m2"}
Batches == {"b1", "b2"}
\* document.text, as the words between its white space
Text1 == <<"hello", "world">>
Text2 == <<"lorem", "ipsum", "dolor">>
Texts == {Text1, Text2}
\* what a collaborator (AI.run, DOCS_BUCKET.put, VECTORIZE_INDEX.upsert)
\* may throw
ErrMsgs == {"network timeout", "invalid input"}
NoError == "<none>"

\* `const workerId = crypto.randomUUID()`: one per context, that is one per
\* batch; every message of the batch goes through the same DocumentProcessor
WorkerOf(batch) == IF batch = "b1" THEN "w1" ELSE "w2"

\* `env.DOCUMENT_COORDINATOR.idFromName(documentId)`
getCoordinator(documentId) == documentId

\* generateContentHash: SHA-256, one digest per text
ContentHash(text) == IF text = Text1 THEN "h1" ELSE "h2"

\* `ttlSeconds: 1800, // 30 minutes`
LockTtlSeconds == 1800
\* `chunkSize = 1000, overlap = 200`
DefaultChunkSize == 1000
DefaultOverlap == 200
\* `totalSteps: 4`
TotalSteps == 4

\* a parameter with a default value: `chunkSize = 1000, overlap = 200`
ChunkSizeOf(option) == IF option = Omitted THEN DefaultChunkSize ELSE option[1]
OverlapOf(option) == IF option = Omitted THEN DefaultOverlap ELSE option[1]

Min(a, b) == IF a < b THEN a ELSE b

\* chunkText: the chunks cut from position i on
RECURSIVE ChunksFrom(_, _, _, _)
ChunksFrom(words, i, chunkSize, overlap) ==
    LET chunk == SubSeq(words, i + 1, Min(i + chunkSize, Len(words)))
    IN  IF i + chunkSize >= Len(words) THEN <<chunk>>
        ELSE IF i + chunkSize - overlap < Len(words)
        THEN <<chunk>> \o ChunksFrom(words, i + chunkSize - overlap,
                                     chunkSize, overlap)
        ELSE <<chunk>>

\* the text as one chunk, whatever the chunk size
chunkTextWhole(words, chunkSize, overlap) == <<words>>

chunkText(words, chunkSize, overlap) == ChunksFrom(words, 0, chunkSize, overlap)

\* the percentage with its fraction cut off
ProgressPercentageTruncated(i, n) == (50 * n + (i + 1) * 40) \div n

\* `Math.round(50 + ((i + 1) / chunks.length) * 40)`
ProgressPercentage(i, n) == (2 * (50 * n + (i + 1) * 40) + n) \div (2 * n)

\* the patterns of isRetryableError an error message contains
PatternsIn(message) ==
    CASE message = "network timeout"         -> {"timeout", "network"}
      [] message = "rate limit exceeded"     -> {"rate limit"}
      [] message = "503 Service Unavailable" -> {"503"}
      [] message = "502 Bad Gateway"         -> {"502"}
      [] message = "429 Too Many Requests"   -> {"429"}
      [] OTHER                               -> {}

\* a classification that also takes 429 for transient
isRetryableErrorWith429(message) ==
    PatternsIn(message)
       \cap {"timeout", "rate limit", "network", "503", "502", "429"} # {}

\* isRetryableError
isRetryableError(message) ==
    PatternsIn(message) \cap {"timeout", "rate limit", "network", "503", "502"} # {}

\* the state objects processDocumentIngestion sends to update-state
StateUpdate(documentId, status, currentStep, stepsCompleted, percentage, startedAt, t) ==
    [documentId    |-> documentId,
     status        |-> status,
     progress      |-> [currentStep    |-> currentStep,
                        stepsCompleted |-> stepsCompleted,
                        totalSteps     |-> TotalSteps,
                        percentage     |-> percentage],
     startedAt     |-> startedAt,
     lastUpdatedAt |-> t]

CompletedUpdate(documentId, startedAt, t) ==
    [documentId    |-> documentId,
     status        |-> "completed",
     progress      |-> [currentStep    |-> "completed",
                        stepsCompleted |-> 4,
                        totalSteps     |-> TotalSteps,
                        percentage     |-> 100],
     startedAt     |-> startedAt,
     lastUpdatedAt |-> t,
     completedAt   |-> t]

FailedUpdate(documentId, startedAt, t, errorMessage) ==
    [documentId    |-> documentId,
     status        |-> "failed",
     progress      |-> [currentStep    |-> "failed",
                        stepsCompleted |-> 0,
                        totalSteps     |-> TotalSteps,
                        percentage     |-> 0],
     startedAt     |-> startedAt,
     lastUpdatedAt |-> t,
     error         |-> errorMessage]

\* ProcessingResult
NoResult ==
    [success |-> FALSE, code |-> "<pending>", message |-> NoError,
     retryable |-> FALSE, action |-> "", existingDocumentId |-> NoDoc,
     chunksProcessed |-> 0, embeddingsGenerated |-> 0]

NotStarted ==
    [pc        |-> "start",
     lock      |-> NoLock,
     startTime |-> 0,
     chunks    |-> 0,
     i         |-> 0,
     embeddingsGenerated |-> 0,
     calls     |-> [embed |-> 0, blob |-> 0, vector |-> 0],
     error     |-> NoError,
     cause     |-> NoError,
     released  |-> <<>>,
     result    |-> NoResult,
     after     |-> {}]

\* the invocation is past `lockResult.success` and before the response to
\* its release-lock
HoldsLock(m) ==
    inv[m].pc \notin {"start", "failed", "done", "threw"}

\* a request of the processor served by coordinator c
Coordinated(c, r) ==
    /\ storage' = [storage EXCEPT ![c] = r.storage]
    /\ UNCHANGED <<last, scan, dispatch>>

\* the refusal returned as a failure that is not retried
LockFailedResultTerminal(lockResult) ==
    [NoResult EXCEPT !.code = "LOCK_ACQUISITION_FAILED",
                     !.message = lockResult.error]

\* lines 30-40: the result returned when the lock was refused
LockFailedResult(lockResult) ==
    [NoResult EXCEPT !.code = "LOCK_ACQUISITION_FAILED",
                     !.message = IF "error" \in DOMAIN lockResult
                                 THEN lockResult.error
                                 ELSE "Could not acquire processing lock",
                     !.retryable = TRUE]

\* lines 16-42: startTime, acquireProcessingLock, the early return
AcquireStep(m) ==
    LET documentId == msg[m].id
        c == getCoordinator(documentId)
        workerId == WorkerOf(msg[m].batch)
        r == AcquireLock(storage[c], documentId, "processing",
                         <<LockTtlSeconds>>, workerId, now, nextLockId)
        fresh == r.status = 200 /\ r.body.action = "acquired"
        entered == [inv[m] EXCEPT
                      !.startTime = now,
                      !.after = {k \in Msgs : inv[k].pc = "done"}]
    IN  /\ inv[m].pc = "start"
        /\ fresh => nextLockId <= MaxLockIds
        /\ Coordinated(c, r)
        /\ nextLockId' = IF fresh THEN nextLockId + 1 ELSE nextLockId
        /\ inv' = [inv EXCEPT ![m] =
              IF r.body.success
              THEN [entered EXCEPT !.pc = "dedup", !.lock = r.body.lock]
              ELSE [entered EXCEPT
                      !.pc = "done",
                      !.result = LockFailedResult(r.body)]]
        /\ UNCHANGED <<now, firstDedup, msg>>

\* lines 45-60: generateContentHash, checkDeduplication, the duplicate test
DedupStep(m) ==
    LET documentId == msg[m].id
        c == getCoordinator(documentId)
        contentHash == ContentHash(msg[m].text)
        r == Deduplicate(storage[c], documentId, contentHash)
    IN  /\ inv[m].pc = "dedup"
        /\ Coordinated(c, r)
        /\ firstDedup' = IF firstDedup[c][contentHash] = NoDoc
                         THEN [firstDedup EXCEPT ![c][contentHash] = documentId]
                         ELSE firstDedup
        /\ inv' = [inv EXCEPT ![m] =
              IF r.body.isDuplicate /\ ~msg[m].forceReprocess
              THEN [@ EXCEPT !.pc = "skip",
                             !.result = [NoResult EXCEPT
                                 !.success = TRUE,
                                 !.code = "OK",
                                 !.action = "skipped_duplicate",
                                 !.existingDocumentId = r.body.existingDocumentId]]
              ELSE [@ EXCEPT !.pc = "preprocessing"]]
        /\ UNCHANGED <<now, nextLockId, msg>>

\* releaseLock: the response is not looked at
ReleaseStep(m, from, to) ==
    LET lock == inv[m].lock
        c == getCoordinator(lock.documentId)
        workerId == WorkerOf(msg[m].batch)
    IN  /\ inv[m].pc = from
        /\ Coordinated(c, ReleaseLock(storage[c], lock.documentId,
                                      lock.lockId, workerId))
        /\ inv' = [inv EXCEPT ![m] =
              IF to = "done" /\ from = "release"
              THEN [@ EXCEPT !.pc = to,
                             !.released = Append(@, lock.lockId),
                             !.result = [NoResult EXCEPT
                                 !.success = TRUE,
                                 !.code = "OK",
                                 !.chunksProcessed = inv[m].chunks,
                                 !.embeddingsGenerated = inv[m].embeddingsGenerated]]
              ELSE [@ EXCEPT !.pc = to,
                             !.released = Append(@, lock.lockId)]]
        /\ UNCHANGED <<now, nextLockId, firstDedup, msg>>

\* line 50: the release of the duplicate path, then the return
SkipReleaseStep(m) == ReleaseStep(m, "skip", "done")
\* line 173: the release after the last state update, then the return
FinalReleaseStep(m) == ReleaseStep(m, "release", "done")
\* line 199: `await this.releaseLock(lock); throw error`
ErrorReleaseStep(m) == ReleaseStep(m, "caught", "failed")

\* updateProcessingState
UpdateStep(m, from, stateUpdate, next) ==
    LET c == getCoordinator(msg[m].id)
    IN  /\ inv[m].pc = from
        /\ Coordinated(c, UpdateState(storage[c], stateUpdate, now))
        /\ inv' = [inv EXCEPT ![m] = next]
        /\ UNCHANGED <<now, nextLockId, firstDedup, msg>>

\* lines 63-74
PreprocessingStep(m) ==
    UpdateStep(m, "preprocessing",
               StateUpdate(msg[m].id, "processing", "preprocessing", 0, 0,
                           inv[m].startTime, now),
               [inv[m] EXCEPT !.pc = "chunking"])

\* lines 77-93: cleanText, the state update, chunkText
ChunkingStep(m) ==
    UpdateStep(m, "chunking",
               StateUpdate(msg[m].id, "processing", "chunking", 1, 25,
                           inv[m].startTime, now),
               [inv[m] EXCEPT
                  !.pc = "embedding",
                  !.chunks = Len(chunkText(msg[m].text,
                                           ChunkSizeOf(msg[m].chunkSize),
                                           OverlapOf(msg[m].overlap)))])

\* lines 95-110: the state update, then the loop is entered
EmbeddingStep(m) ==
    UpdateStep(m, "embedding",
               StateUpdate(msg[m].id, "processing", "embedding", 2, 50,
                           inv[m].startTime, now),
               [inv[m] EXCEPT !.pc = "embed", !.i = 0])

\* a collaborator call of the loop body: it returns, or it throws
CollaboratorStep(m, from, call, to) ==
    /\ inv[m].pc = from
    /\ \/ inv' = [inv EXCEPT ![m] =
             [@ EXCEPT !.pc = to,
                       !.calls[call] = @ + 1,
                       !.embeddingsGenerated =
                           IF call = "vector" THEN @ + 1 ELSE @]]
       \/ \E e \in ErrMsgs :
             inv' = [inv EXCEPT ![m] =
                [@ EXCEPT !.pc = "caught", !.calls[call] = @ + 1,
                          !.error = e, !.cause = e]]
    /\ UNCHANGED <<now, storage, nextLockId, last, firstDedup, msg,
                   scan, dispatch>>

\* line 120: generateEmbedding
EmbedStep(m) == CollaboratorStep(m, "embed", "embed", "store")
\* line 134: storeChunkInR2
StoreStep(m) == CollaboratorStep(m, "store", "blob", "upsert")
\* lines 137-139: upsertVector, `embeddingsGenerated++`
UpsertStep(m) == CollaboratorStep(m, "upsert", "vector", "progress")

\* lines 142-155: the progress update that ends one pass of the loop
ProgressStep(m) ==
    UpdateStep(m, "progress",
               StateUpdate(msg[m].id, "processing", "embedding", 2,
                           ProgressPercentage(inv[m].i, inv[m].chunks),
                           inv[m].startTime, now),
               [inv[m] EXCEPT
                  !.i = @ + 1,
                  !.pc = IF inv[m].i + 1 < inv[m].chunks THEN "embed"
                         ELSE "finalize"])

\* lines 158-170
FinalizeStep(m) ==
    UpdateStep(m, "finalize",
               CompletedUpdate(msg[m].id, inv[m].startTime, now),
               [inv[m] EXCEPT !.pc = "release"])

\* lines 202-238: the outer catch
FailedStep(m) ==
    UpdateStep(m, "failed",
               FailedUpdate(msg[m].id, inv[m].startTime, now, inv[m].error),
               [inv[m] EXCEPT
                  !.pc = "done",
                  !.result = [NoResult EXCEPT
                                !.code = "PROCESSING_FAILED",
                                !.message = inv[m].error,
                                !.retryable = isRetryableError(inv[m].error)]])

\* the clock advances by a lock's TTL while messages are processed
PipeTick ==
    /\ now + LockTtlSeconds * MsPerSecond
          <= MaxPipeTicks * LockTtlSeconds * MsPerSecond
    /\ now' = now + LockTtlSeconds * MsPerSecond
    /\ UNCHANGED <<storage, nextLockId, last, firstDedup, pipe>>

\* message m1 is for document d1 in batch b1; m2 is any message
PipeInit ==
    /\ InitCoordinators
    /\ msg \in [Msgs -> [id : Docs, text : Texts,
                         forceReprocess : BOOLEAN, batch : Batches,
                         chunkSize : {Omitted}, overlap : {Omitted}]]
    /\ msg["m1"].id = "d1" /\ msg["m1"].batch = "b1" /\ msg["m1"].text = Text1
    /\ inv = [m \in Msgs |-> NotStarted]
    /\ Quiet

PipeNext ==
    \/ \E m \in Msgs :
          \/ AcquireStep(m)
          \/ DedupStep(m)
          \/ SkipReleaseStep(m)
          \/ PreprocessingStep(m)
          \/ ChunkingStep(m)
          \/ EmbeddingStep(m)
          \/ EmbedStep(m)
          \/ StoreStep(m)
          \/ UpsertStep(m)
          \/ ProgressStep(m)
          \/ FinalizeStep(m)
          \/ FinalReleaseStep(m)
          \/ ErrorReleaseStep(m)
          \/ FailedStep(m)
    \/ PipeTick

\* two deliveries of document-ingestion messages, processed by
\* processDocumentIngestion in every interleaving of their awaits
PipeSpec == PipeInit /\ [][PipeNext]_vars

\* no document-ingestion message is processed
Undelivered ==
    /\ msg = [m \in Msgs |-> [id |-> "d1", text |-> Text1,
                              forceReprocess |-> FALSE, batch |-> "b1",
                              chunkSize |-> Omitted, overlap |-> Omitted]]
    /\ inv = [m \in Msgs |-> NotStarted]

\* no message is delivered while the coordinator is driven directly
Init ==
    /\ InitCoordinators
    /\ msg = [m \in Msgs |-> [id |-> "d1", text |-> Text1,
                              forceReprocess |-> FALSE, batch |-> "b1",
                              chunkSize |-> Omitted, overlap |-> Omitted]]
    /\ inv = [m \in Msgs |-> NotStarted]
    /\ Quiet

\* the coordinator instance the requests below address; every instance
\* runs the same class on its own storage
Coord == "d1"

\* every lock request for document d1; document d2 is locked with the
\* default TTL, as a second record in the same storage
LockNext ==
    \/ \E lt \in LockTypeInputs, ttl \in TtlInputs, w \in Workers :
          AcquireLockReq(Coord, "d1", lt, ttl, w)
    \/ \E w \in Workers : AcquireLockReq(Coord, "d2", "deleting", Omitted, w)
    \/ \E d \in Docs, id \in 1..MaxLockIds, w \in Workers :
          ReleaseLockReq(Coord, d, id, w)
    \/ \E d \in Docs \cup {NoParam} : CheckLockReq(Coord, d)
    \/ CleanupReq(Coord)
    \/ Tick

DedupNext ==
    \/ \E d \in Docs, h \in Hashes : DeduplicateReq(Coord, d, h)
    \/ \E d \in Docs, w \in Workers :
          AcquireLockReq(Coord, d, "processing", <<1>>, w)
    \/ \E d \in Docs, id \in 1..MaxLockIds, w \in Workers :
          ReleaseLockReq(Coord, d, id, w)
    \/ CleanupReq(Coord)
    \/ Tick

Next == LockNext \/ DedupNext

\* one coordinator under every sequence of requests
Spec == Init /\ [][Next]_vars
\* the lock table alone
LockSpec == Init /\ [][LockNext]_vars
\* the content hash index alone
DedupSpec == Init /\ [][DedupNext]_vars

(* ----------------------- the processing state store ------------------- *)

\* the lastUpdatedAt a caller may put in its update
ClientClocks == {0, 3 * RetentionMs}

\* bodies of update-state requests for document d: a full state as
\* processDocumentIngestion sends it, and partial ones
FullUpdates(d) ==
    {StateUpdate(d, "processing", "embedding", 2, 50, 0, c) : c \in ClientClocks}
StatusOnlyUpdate(d) == [documentId |-> d, status |-> "completed"]
PartialUpdates(d) ==
    {StatusOnlyUpdate(d),
     [documentId |-> d, status |-> "failed", error |-> "invalid input"]}
    \cup {[documentId |-> d, lastUpdatedAt |-> c] : c \in ClientClocks}
StateUpdates(d) == FullUpdates(d) \cup PartialUpdates(d)

\* the clock advances by a second or by the retention of states: once by
\* the retention, and by less than MaxTicks seconds
StateTick ==
    \E step \in {MsPerSecond, RetentionMs} :
        /\ now + step <= RetentionMs + (MaxTicks - 1) * MsPerSecond
        /\ (now + step) % RetentionMs <= (MaxTicks - 1) * MsPerSecond
        /\ now' = now + step
        /\ last' = [op |-> "tick", status |-> 0, action |-> "", found |-> "absent"]
        /\ UNCHANGED <<storage, nextLockId, firstDedup, pipe>>

\* every update of the state of d1, a status-only update of d2 in the
\* same storage, and cleanup
StateNext ==
    \/ \E u \in StateUpdates("d1") : UpdateStateReq(Coord, u)
    \/ UpdateStateReq(Coord, StatusOnlyUpdate("d2"))
    \/ CleanupReq(Coord)
    \/ StateTick

\* the state store alone
StateSpec == Init /\ [][StateNext]_vars

\* states of two documents, a lock taken for a second or for the default
\* TTL, a hash, and cleanup
ReapNext ==
    \/ \E d \in Docs : UpdateStateReq(Coord, StatusOnlyUpdate(d))
    \/ \E ttl \in TtlInputs :
          AcquireLockReq(Coord, "d1", "processing", ttl, "w1")
    \/ DeduplicateReq(Coord, "d1", "h1")
    \/ CleanupReq(Coord)
    \/ StateTick

\* what cleanup scans
ReapSpec == Init /\ [][ReapNext]_vars

(* ------------------- requests for two documents ----------------------- *)

\* the instance and the document of a request: instance Coord serves both
\* documents (a handler takes the document id from the body of the
\* request, whatever the name of its instance), every other instance its own
Addressed == {a \in Docs \X Docs : a[1] = Coord \/ a[2] = getCoordinator(a[1])}

\* lock, release and state requests
SharedNext ==
    \/ \E a \in Addressed, w \in Workers :
          AcquireLockReq(a[1], a[2], "processing", Omitted, w)
    \/ \E a \in Addressed, id \in 1..MaxLockIds, w \in Workers :
          ReleaseLockReq(a[1], a[2], id, w)
    \/ \E a \in Addressed : UpdateStateReq(a[1], StatusOnlyUpdate(a[2]))

\* two instances, each serving requests for both documents
SharedSpec == Init /\ [][SharedNext]_vars

(* ------------------ handleCleanup, one await at a time ----------------- *)

\* the keys of storage.list(), in key order: lock:<d> before state:<d>
Keys == <<<<"lock", "d1">>, <<"lock", "d2">>, <<"state", "d1">>, <<"state", "d2">>>>

\* the entries of Keys present in st
RECURSIVE ListedFrom(_, _)
ListedFrom(st, n) ==
    IF n > Len(Keys) THEN <<>>
    ELSE LET key == Keys[n]
             present == IF key[1] = "lock" THEN st.lock[key[2]] # NoLock
                        ELSE st.state[key[2]] # NoState
         IN  IF present THEN <<key>> \o ListedFrom(st, n + 1)
             ELSE ListedFrom(st, n + 1)

\* `const now = Date.now()`, `await this.state.storage.list()`
ScanStart(inst) ==
    /\ scan.pc = "idle"
    /\ scan' = [pc |-> "deleting", now |-> now, listed |-> storage[inst],
                todo |-> ListedFrom(storage[inst], 1)]
    /\ UNCHANGED <<now, storage, nextLockId, last, firstDedup, msg, inv, dispatch>>

\* one pass of the loop: the listed value is tested against the `now` of
\* the start, and `await this.state.storage.delete(key)`
ScanVisit(inst) ==
    /\ scan.pc = "deleting" /\ scan.todo # <<>>
    /\ LET key == Head(scan.todo)
           doomed == IF key[1] = "lock"
                     THEN LockExpired(scan.listed.lock[key[2]], scan.now)
                     ELSE StateOld(scan.listed.state[key[2]], scan.now)
       IN  storage' = IF ~doomed THEN storage
                      ELSE IF key[1] = "lock"
                      THEN [storage EXCEPT ![inst].lock[key[2]] = NoLock]
                      ELSE [storage EXCEPT ![inst].state[key[2]] = NoState]
    /\ scan' = [scan EXCEPT !.todo = Tail(@)]
    /\ UNCHANGED <<now, nextLockId, last, firstDedup, msg, inv, dispatch>>

\* the loop is over: the response
ScanEnd(inst) ==
    /\ scan.pc = "deleting" /\ scan.todo = <<>>
    /\ scan' = NoScan
    /\ last' = [op |-> "cleanup", status |-> 200, action |-> "",
                found |-> "absent"]
    /\ UNCHANGED <<now, storage, nextLockId, firstDedup, msg, inv, dispatch>>

\* a cleanup whose awaits let other requests of the same instance in
ScanNext ==
    \/ ScanStart(Coord)
    \/ ScanVisit(Coord)
    \/ ScanEnd(Coord)
    \/ \E w \in Workers : AcquireLockReq(Coord, "d1", "processing", <<1>>, w)
    \/ UpdateStateReq(Coord, StatusOnlyUpdate("d1"))
    \/ StateTick

ScanSpec == Init /\ [][ScanNext]_vars

(* -------------------------- POST /admin/cleanup ------------------------ *)

\* the route sends one cleanup request to the instance
\* idFromName('cleanup-trigger')
AdminCleanup == CleanupReq(CleanupTrigger)

\* the requests processors send for document d go to getCoordinator(d)
AdminNext ==
    \/ \E d \in Docs, w \in Workers :
          AcquireLockReq(getCoordinator(d), d, "processing", <<1>>, w)
    \/ \E d \in Docs :
          UpdateStateReq(getCoordinator(d), StatusOnlyUpdate(d))
    \/ AdminCleanup
    \/ StateTick

AdminSpec == Init /\ [][AdminNext]_vars

(* ------------------------------ queueHandler --------------------------- *)

Queues == {"document-ingestion", "webhook-processing", "batch-reprocessing"}
\* a queue name queueHandler has no case for
UnknownQueue == "dead-letter"
\* `Math.min(batch.messages.length, 5)`
IngestionConcurrency == 5
\* `Math.min(batch.messages.length, 10)`
WebhookConcurrency == 10
\* `for (const message of batch.messages)`: one message at a time
Sequential == 1
\* the `maxRetries` each handler writes in the envelope
IngestionMaxRetries == 3
WebhookMaxRetries == 5
ReprocessMaxRetries == 2
\* message.attempts of the messages of a batch: a first delivery, or a
\* delivery past every maxRetries
FirstDelivery == 1
Redelivery == 6
AttemptInputs == {FirstDelivery, Redelivery}
\* how a processor call ends: a result with success, a result with
\* error.retryable true or false, a failure result without error, or an
\* exception
Outcomes == {"success", "retryable", "terminal", "bare-failure", "threw"}

LimitOf(queueName) ==
    IF queueName = "document-ingestion" THEN IngestionConcurrency
    ELSE IF queueName = "webhook-processing" THEN WebhookConcurrency
    ELSE Sequential

\* batches of one message, and of MaxExtra messages more than the limit
BatchSizes(queueName) ==
    IF queueName = "document-ingestion" THEN {1, IngestionConcurrency + MaxExtra, 2 * IngestionConcurrency}
    ELSE {1, LimitOf(queueName) + MaxExtra}

\* a batch of one message is a first delivery or a redelivery, a larger
\* batch a redelivery
AttemptsOf(size) == IF size = 1 THEN AttemptInputs ELSE {Redelivery}

\* every message run with the first group
ConcurrencyUnbounded(queueName, size) == size

\* `const concurrency = Math.min(batch.messages.length, N)`; the for-of
\* loop of handleBatchReprocessing awaits each message in turn
ConcurrencyOf(queueName, size) ==
    IF queueName = "batch-reprocessing" THEN Sequential
    ELSE Min(size, LimitOf(queueName))

\* the metadata of the QueueMessage built for the processor
Envelope(queueName, attempts) ==
    [retryCount |-> attempts,
     maxRetries |-> IF queueName = "document-ingestion" THEN IngestionMaxRetries
                    ELSE IF queueName = "webhook-processing" THEN WebhookMaxRetries
                    ELSE ReprocessMaxRetries]

\* a retry given only while the envelope has retries left
DispositionWithinBudget(outcome, envelope) ==
    IF outcome \in {"threw", "retryable"}
       /\ envelope.retryCount < envelope.maxRetries THEN "retry"
    ELSE "ack"

\* `if (result.success) ack; else if (result.error?.retryable) retry;
\* else ack`, and `catch { retry }`
Disposition(outcome, envelope) ==
    IF outcome = "threw" THEN "retry"
    ELSE IF outcome = "success" THEN "ack"
    ELSE IF outcome = "retryable" THEN "retry"
    ELSE "ack"

\* no message acknowledged
AckNone(calls) == calls

\* `batch.ackAll()`
AckAll(calls) == [i \in DOMAIN calls |-> Append(calls[i], "ack")]

\* the next group started one message late
NextFromSkipping(from, concurrency) == from + concurrency + 1

\* `i += concurrency`
NextFrom(from, concurrency) == from + concurrency

\* the messages of the group that begins at from
GroupAt(from, concurrency, size) ==
    {i \in 1..size : from <= i /\ i < from + concurrency}

\* the group left as soon as one of its messages is done
GroupDrainedByOne(group, stages) == \E i \in group : stages[i] = "done"

\* `await Promise.all(chunkPromises)`
GroupDrained(group, stages) == \A i \in group : stages[i] = "done"

\* queueHandler: the switch on batch.queue
Route ==
    /\ handler.pc = "called"
    /\ IF delivery.queue \in Queues
       THEN /\ handler' = [handler EXCEPT !.pc = "loop", !.from = 1]
            /\ UNCHANGED disp
       ELSE /\ disp' = AckAll(disp)
            /\ handler' = [handler EXCEPT !.pc = "threw",
                                          !.error = "Unsupported queue"]
    /\ UNCHANGED <<now, storage, nextLockId, last, firstDedup, msg, inv,
                   scan, processors, delivery, stage>>

\* `chunk.map(async (message) => ...)`: the processor is called for every
\* message of the group
StartGroup ==
    LET c == ConcurrencyOf(delivery.queue, delivery.size)
        group == GroupAt(handler.from, c, delivery.size)
    IN  /\ handler.pc = "loop" /\ handler.from <= delivery.size
        /\ stage' = [i \in DOMAIN stage |->
                        IF i \in group THEN "running" ELSE stage[i]]
        /\ handler' = [handler EXCEPT !.pc = "await",
                                      !.invoked = @ + Cardinality(group)]
        /\ UNCHANGED <<now, storage, nextLockId, last, firstDedup, msg, inv,
                       scan, processors, delivery, disp>>

\* the processor call of message i ends; the handler counts the result
\* and acks or retries the message
Settle(i) ==
    /\ handler.pc = "await" /\ stage[i] = "running"
    /\ stage' = [stage EXCEPT ![i] = "done"]
    /\ \E outcome \in Outcomes :
          /\ disp' = [disp EXCEPT ![i] =
                Append(@, Disposition(outcome,
                                      Envelope(delivery.queue, delivery.attempts)))]
          /\ handler' =
                IF delivery.queue # "document-ingestion" THEN handler
                ELSE IF outcome = "success"
                THEN [handler EXCEPT !.successCount = @ + 1]
                ELSE [handler EXCEPT !.failureCount = @ + 1]
    /\ UNCHANGED <<now, storage, nextLockId, last, firstDedup, msg, inv,
                   scan, processors, delivery>>

\* `await Promise.all(chunkPromises)` returns, `i += concurrency`
EndGroup ==
    LET c == ConcurrencyOf(delivery.queue, delivery.size)
    IN  /\ handler.pc = "await"
        /\ GroupDrained(GroupAt(handler.from, c, delivery.size), stage)
        /\ handler' = [handler EXCEPT !.pc = "loop",
                                      !.from = NextFrom(@, c)]
        /\ UNCHANGED <<now, storage, nextLockId, last, firstDedup, msg, inv,
                       scan, processors, delivery, stage, disp>>

\* the loop over the groups is over: the handler returns
Finish ==
    /\ handler.pc = "loop" /\ handler.from > delivery.size
    /\ handler' = [handler EXCEPT !.pc = "returned"]
    /\ UNCHANGED <<now, storage, nextLockId, last, firstDedup, msg, inv,
                   scan, processors, delivery, stage, disp>>

\* one batch is delivered to queueHandler
BatchInit ==
    /\ InitCoordinators
    /\ msg = [m \in Msgs |-> [id |-> "d1", text |-> Text1,
                              forceReprocess |-> FALSE, batch |-> "b1",
                              chunkSize |-> Omitted, overlap |-> Omitted]]
    /\ inv = [m \in Msgs |-> NotStarted]
    /\ scan = NoScan
    /\ job = NoJob
    /\ hook = NoHook
    /\ \E queueName \in Queues \cup {UnknownQueue} :
          \E size \in BatchSizes(queueName) : \E a \in AttemptsOf(size) :
             /\ delivery = [queue |-> queueName, size |-> size, attempts |-> a]
             /\ stage = [i \in 1..size |-> "queued"]
             /\ disp = [i \in 1..size |-> <<>>]
    /\ handler = [NoHandler EXCEPT !.pc = "called"]

BatchNext ==
    \/ Route
    \/ StartGroup
    \/ \E i \in DOMAIN stage : Settle(i)
    \/ EndGroup
    \/ Finish

BatchSpec == BatchInit /\ [][BatchNext]_vars

(* ------------- one invocation, every await of which may throw ---------- *)

\* what a request to the coordinator (fetch, response.json()) or the
\* hashing may throw
FaultMsgs ==
    ErrMsgs \cup {"rate limit exceeded", "503 Service Unavailable",
                  "502 Bad Gateway", "429 Too Many Requests"}

\* `options.chunkSize`, `options.overlap` of a payload: both left out, or
\* one word per chunk without overlap
ChunkOptions == {<<Omitted, Omitted>>, <<<<1>>, <<0>>>>}

\* the awaits between `try {` of line 43 and `} catch (error) {` of
\* line 197 that reach the coordinator or the digest
InnerTry ==
    {"dedup", "skip", "preprocessing", "chunking", "embedding", "progress",
     "finalize", "release"}

\* an awaited call throws e; the request is not served.  In the outer try
\* (acquireProcessingLock) the outer catch runs with e; in the inner try the
\* inner catch runs; when the release of the inner catch throws, e replaces
\* the first error and the outer catch runs; when the state update of the
\* outer catch throws, e leaves processDocumentIngestion
CallFails(m) ==
    \E e \in FaultMsgs :
       /\ inv[m].pc \in InnerTry \cup {"start", "caught", "failed"}
       /\ inv' = [inv EXCEPT ![m] =
             CASE inv[m].pc = "start" ->
                    [@ EXCEPT !.pc = "failed", !.startTime = now, !.error = e]
               [] inv[m].pc \in InnerTry ->
                    [@ EXCEPT !.pc = "caught", !.error = e, !.cause = e]
               [] inv[m].pc = "caught" ->
                    [@ EXCEPT !.pc = "failed", !.error = e,
                              !.released = Append(@, inv[m].lock.lockId)]
               [] inv[m].pc = "failed" ->
                    [@ EXCEPT !.pc = "threw", !.error = e]]
       /\ UNCHANGED <<now, storage, nextLockId, last, firstDedup, msg,
                      scan, dispatch>>

\* the message processed
Solo == "m1"

AttemptInit ==
    /\ InitCoordinators
    /\ \E text \in Texts, forceReprocess \in BOOLEAN, options \in ChunkOptions :
          msg = [m \in Msgs |->
                   [id |-> "d1", text |-> IF m = Solo THEN text ELSE Text1,
                    forceReprocess |-> IF m = Solo THEN forceReprocess ELSE FALSE,
                    batch |-> "b1",
                    chunkSize |-> IF m = Solo THEN options[1] ELSE Omitted,
                    overlap |-> IF m = Solo THEN options[2] ELSE Omitted]]
    /\ inv = [m \in Msgs |-> NotStarted]
    /\ Quiet

AttemptNext ==
    \/ AcquireStep(Solo)
    \/ DedupStep(Solo)
    \/ SkipReleaseStep(Solo)
    \/ PreprocessingStep(Solo)
    \/ ChunkingStep(Solo)
    \/ EmbeddingStep(Solo)
    \/ EmbedStep(Solo)
    \/ StoreStep(Solo)
    \/ UpsertStep(Solo)
    \/ ProgressStep(Solo)
    \/ FinalizeStep(Solo)
    \/ FinalReleaseStep(Solo)
    \/ ErrorReleaseStep(Solo)
    \/ FailedStep(Solo)
    \/ CallFails(Solo)
    \/ PipeTick

\* one delivery of a document-ingestion message, processed alone
AttemptSpec == AttemptInit /\ [][AttemptNext]_vars

(* ------------- one invocation on an instance that knows the text ------ *)

\* a deduplicate request naming another document, served by the instance
\* of the processed document: handleDeduplication takes the document id
\* from the body of the request, whatever the name of the instance
ForeignDedup ==
    \E h \in Hashes :
       DeduplicateReq(getCoordinator(msg[Solo].id), "d2", h)

SkipNext ==
    \/ ForeignDedup
    \/ AcquireStep(Solo)
    \/ DedupStep(Solo)
    \/ SkipReleaseStep(Solo)
    \/ PreprocessingStep(Solo)
    \/ ChunkingStep(Solo)
    \/ EmbeddingStep(Solo)
    \/ EmbedStep(Solo)
    \/ StoreStep(Solo)
    \/ UpsertStep(Solo)
    \/ ProgressStep(Solo)
    \/ FinalizeStep(Solo)
    \/ FinalReleaseStep(Solo)
    \/ ErrorReleaseStep(Solo)
    \/ FailedStep(Solo)

\* one delivery for document d1, processed while the hash index of its
\* coordinator is also written for document d2
SkipSpec == AttemptInit /\ [][SkipNext]_vars

(* ------------- one invocation, chunkText one pass at a time ----------- *)

\* the passes of the loop of chunkText that are followed
MaxPasses == 4

\* `options.chunkSize`, `options.overlap`: left out, an overlap below the
\* chunk size, equal to it and above it
LoopOptions ==
    {<<Omitted, Omitted>>, <<<<1>>, <<0>>>>, <<<<2>>, <<1>>>>,
     <<<<1>>, <<1>>>>, <<<<1>>, <<2>>>>}

\* lines 79-93: the state update of the chunking step, then chunkText is
\* entered: `const chunks = []`, `let i = 0`
ChunkingUpdateStep(m) ==
    UpdateStep(m, "chunking",
               StateUpdate(msg[m].id, "processing", "chunking", 1, 25,
                           inv[m].startTime, now),
               [inv[m] EXCEPT !.pc = "chunkloop", !.chunks = 0, !.i = 0])

\* lines 318-323, one pass of the loop, entered with i < words.length:
\* `chunks.push(...)`, the break on `i + chunkSize >= words.length`,
\* otherwise `i += chunkSize - overlap` and the test `i < words.length`
ChunkPass(m) ==
    LET words == msg[m].text
        chunkSize == ChunkSizeOf(msg[m].chunkSize)
        overlap == OverlapOf(msg[m].overlap)
        break == inv[m].i + chunkSize >= Len(words)
        next == inv[m].i + chunkSize - overlap
    IN  /\ inv[m].pc = "chunkloop"
        /\ inv[m].chunks < MaxPasses
        /\ inv' = [inv EXCEPT ![m] =
              [@ EXCEPT !.chunks = @ + 1,
                        !.i = IF break THEN @ ELSE next,
                        !.pc = IF break \/ next >= Len(words)
                               THEN "embedding" ELSE "chunkloop"]]
        /\ UNCHANGED <<now, storage, nextLockId, last, firstDedup, msg,
                       scan, dispatch>>

LoopInit ==
    /\ InitCoordinators
    /\ \E text \in Texts, forceReprocess \in BOOLEAN, options \in LoopOptions :
          msg = [m \in Msgs |->
                   [id |-> "d1", text |-> IF m = Solo THEN text ELSE Text1,
                    forceReprocess |-> IF m = Solo THEN forceReprocess ELSE FALSE,
                    batch |-> "b1",
                    chunkSize |-> IF m = Solo THEN options[1] ELSE Omitted,
                    overlap |-> IF m = Solo THEN options[2] ELSE Omitted]]
    /\ inv = [m \in Msgs |-> NotStarted]
    /\ Quiet

LoopNext ==
    \/ AcquireStep(Solo)
    \/ DedupStep(Solo)
    \/ SkipReleaseStep(Solo)
    \/ PreprocessingStep(Solo)
    \/ ChunkingUpdateStep(Solo)
    \/ ChunkPass(Solo)
    \/ EmbeddingStep(Solo)
    \/ EmbedStep(Solo)
    \/ StoreStep(Solo)
    \/ UpsertStep(Solo)
    \/ ProgressStep(Solo)
    \/ FinalizeStep(Solo)
    \/ FinalReleaseStep(Solo)
    \/ ErrorReleaseStep(Solo)
    \/ FailedStep(Solo)

\* one delivery of a document-ingestion message whose options name any
\* chunk size and overlap
LoopSpec == LoopInit /\ [][LoopNext]_vars

(* ----------------- BatchProcessor.processBatchReprocess --------------- *)

\* `const batchSize = 5`
ReprocessBatchSize == 5
\* `setTimeout(resolve, 1000)`
SubBatchDelayMs == 1000
\* the cases of the switch of processDocument
KnownReasons == {"schema_change", "model_update", "policy_change", "manual_reindex"}
\* payload.reason: a reason with a case, and one without
Reasons == {"model_update", "vacuum"}

\* payload.documentIds: n ids
DocumentIds(n) == [k \in 1..n |-> k]

\* the absent `error` of a ProcessingResult
NoErrorField == [absent |-> TRUE]

\* a slice that takes one id more
SubBatchOverlapping(documentIds, i) ==
    SubSeq(documentIds, i + 1, Min(i + ReprocessBatchSize + 1, Len(documentIds)))

\* `documentIds.slice(i, i + batchSize)`
SubBatch(documentIds, i) ==
    SubSeq(documentIds, i + 1, Min(i + ReprocessBatchSize, Len(documentIds)))

\* processDocument: the handler of the reason returns, or it throws (an
\* unknown reason, a missing content, a failed AI.run or upsert) and the
\* catch returns the failure
processDocument(documentId, reason, failing) ==
    IF reason \notin KnownReasons
    THEN [documentId |-> documentId, success |-> FALSE,
          error |-> "Unknown reprocessing reason"]
    ELSE IF documentId \in failing
    THEN [documentId |-> documentId, success |-> FALSE,
          error |-> "Document content not found"]
    ELSE [documentId |-> documentId, success |-> TRUE, error |-> NoError]

\* the failures of a sub-batch, as pushed to results.errors
RECURSIVE ErrorsOf(_)
ErrorsOf(batchResults) ==
    IF batchResults = <<>> THEN <<>>
    ELSE LET result == Head(batchResults)
         IN  (IF result.success THEN <<>>
              ELSE <<[documentId |-> result.documentId, error |-> result.error]>>)
             \o ErrorsOf(Tail(batchResults))

\* lines 86-123: one pass of the loop of processBatch: the documents of
\* the sub-batch are processed, the results counted, and the delay taken
\* when ids remain
SubBatchStep ==
    LET batch == SubBatch(job.documentIds, job.i)
        batchResults == [k \in 1..Len(batch) |->
                           processDocument(batch[k], job.reason, job.failing)]
        errors == ErrorsOf(batchResults)
    IN  /\ job.pc = "loop" /\ job.i < Len(job.documentIds)
        /\ job' = [job EXCEPT
              !.successCount = @ + Len(batchResults) - Len(errors),
              !.failureCount = @ + Len(errors),
              !.errors = @ \o errors,
              !.processed = @ \o batch,
              !.i = @ + ReprocessBatchSize]
        /\ now' = IF job.i + ReprocessBatchSize < Len(job.documentIds)
                  THEN now + SubBatchDelayMs ELSE now
        /\ UNCHANGED <<storage, nextLockId, last, firstDedup, msg, inv, scan,
                       delivery, handler, stage, disp, hook>>

\* lines 42-50: the result of processBatchReprocess
BatchResult(results) ==
    [success  |-> results.failureCount = 0,
     error    |-> NoErrorField,
     metadata |-> [batchResults |-> results]]

\* lines 125 and 27-50: processBatch returns, processBatchReprocess returns
ReturnStep ==
    /\ job.pc = "loop" /\ job.i >= Len(job.documentIds)
    /\ job' = [job EXCEPT
          !.pc = "returned",
          !.result = BatchResult([successCount |-> job.successCount,
                                  failureCount |-> job.failureCount,
                                  errors       |-> job.errors])]
    /\ UNCHANGED <<now, storage, nextLockId, last, firstDedup, msg, inv, scan,
                   delivery, handler, stage, disp, hook>>

\* how a handler reads a ProcessingResult
OutcomeOf(result) ==
    IF result.success THEN "success"
    ELSE IF result.error = NoErrorField THEN "bare-failure"
    ELSE IF result.error.retryable THEN "retryable"
    ELSE "terminal"

\* index.ts, lines 325-335: handleBatchReprocessing acknowledges the message
\* or asks for its redelivery
SettleReprocess ==
    /\ job.pc = "returned"
    /\ job' = [job EXCEPT
          !.pc = "settled",
          !.disposition = Disposition(OutcomeOf(job.result),
                                      Envelope("batch-reprocessing", job.attempts))]
    /\ UNCHANGED <<now, storage, nextLockId, last, firstDedup, msg, inv, scan,
                   delivery, handler, stage, disp, hook>>

\* a batch-reprocess message with up to MaxDocuments ids, any of which may
\* fail
ReprocessInit ==
    /\ InitCoordinators
    /\ Undelivered
    /\ Idle
    /\ hook = NoHook
    /\ \E n \in 0..MaxDocuments, reason \in Reasons, a \in AttemptInputs :
          \E failing \in SUBSET (1..n) :
             job = [NoJob EXCEPT !.pc = "loop",
                                 !.documentIds = DocumentIds(n),
                                 !.reason = reason,
                                 !.failing = failing,
                                 !.attempts = a]

ReprocessNext ==
    \/ SubBatchStep
    \/ ReturnStep
    \/ SettleReprocess

ReprocessSpec == ReprocessInit /\ [][ReprocessNext]_vars

(* ------------------- WebhookProcessor.processWebhookSync --------------- *)

\* payload.sourceType: the cases of the switch, and a type without a case
SourceTypes == {"sharepoint", "confluence", "jira", "website"}
UnknownSource == "rss"
\* payload.eventType
EventTypes == {"created", "updated", "deleted", "moved"}
\* what `fetch(url)` and `response.text()` do: the content arrives, or one
\* of them throws
FetchOk == "<content>"
FetchOutcomes == {FetchOk} \cup FaultMsgs

\* WebhookProcessor.isRetryableError
WebhookIsRetryableError(message) ==
    PatternsIn(message)
       \cap {"timeout", "rate limit", "network", "503", "502", "429"} # {}

\* the source types whose content is fetched from the remote resource; the
\* fetchers of SharePoint, Confluence and Jira are placeholders that build
\* their content from the payload
RemoteFetch(sourceType, eventType) ==
    sourceType = "website" /\ eventType \in {"created", "updated"}

\* fetchWebContent: the content, or null when fetch or text() threw
fetchWebContent(outcome) == IF outcome = FetchOk THEN "content" ELSE "null"

\* payload.metadata.sourceType: the payload's source type, another one,
\* or no such entry in the metadata
NoMetadataSource == "<undefined>"
MetadataSourceTypes == {"sharepoint", "confluence", NoMetadataSource}

\* handleDocumentMove: the deletion of the old resource, then the new
\* document when metadata.sourceType has a case in its switch
handleDocumentMove(metadataSourceType) ==
    IF metadataSourceType \in {"sharepoint", "confluence"}
    THEN <<"deletion", "processing">>
    ELSE <<"deletion">>

\* what the message makes the processor queue: a document for processing,
\* a deletion, what handleDocumentMove queues for a moved SharePoint
\* document, or nothing
QueuedFor(sourceType, eventType, outcome, metadataSourceType) ==
    IF eventType \in {"created", "updated"}
    THEN IF RemoteFetch(sourceType, eventType)
            /\ fetchWebContent(outcome) = "null"
         THEN <<>> ELSE <<"processing">>
    ELSE IF eventType = "deleted" THEN <<"deletion">>
    ELSE IF sourceType = "sharepoint"
    THEN handleDocumentMove(metadataSourceType)
    ELSE <<>>

\* processWebhookSync: the result of the source's handler, or the result
\* built by the catch for a source type without a case
WebhookResult(sourceType, eventType, outcome) ==
    IF sourceType \in SourceTypes
    THEN [success  |-> TRUE,
          error    |-> NoErrorField,
          metadata |-> [sourceType |-> sourceType, eventType |-> eventType]]
    ELSE [success  |-> FALSE,
          error    |-> [code      |-> "WEBHOOK_PROCESSING_FAILED",
                        message   |-> "Unsupported source type",
                        retryable |-> WebhookIsRetryableError(
                                          "Unsupported source type")],
          metadata |-> <<>>]

\* processWebhookSync, from its call to its return
WebhookStep ==
    /\ hook.pc = "called"
    /\ hook' = [hook EXCEPT
          !.pc = "returned",
          !.fetched = IF RemoteFetch(hook.sourceType, hook.eventType)
                      THEN 1 ELSE 0,
          !.queued = IF hook.sourceType \in SourceTypes
                     THEN QueuedFor(hook.sourceType, hook.eventType, hook.fetch,
                                    hook.metadataSourceType)
                     ELSE <<>>,
          !.result = WebhookResult(hook.sourceType, hook.eventType, hook.fetch)]
    /\ UNCHANGED <<now, storage, nextLockId, last, firstDedup, msg, inv, scan,
                   delivery, handler, stage, disp, job>>

\* index.ts, lines 254-272: handleWebhookProcessing acknowledges the
\* message or asks for its redelivery
SettleWebhook ==
    /\ hook.pc = "returned"
    /\ hook' = [hook EXCEPT
          !.pc = "settled",
          !.disposition = Disposition(OutcomeOf(hook.result),
                                      Envelope("webhook-processing", hook.attempts))]
    /\ UNCHANGED <<now, storage, nextLockId, last, firstDedup, msg, inv, scan,
                   delivery, handler, stage, disp, job>>

\* a webhook message of any source and event, with every behaviour of the
\* remote resource
WebhookInit ==
    /\ InitCoordinators
    /\ Undelivered
    /\ Idle
    /\ job = NoJob
    /\ \E sourceType \in SourceTypes \cup {UnknownSource},
          eventType \in EventTypes, outcome \in FetchOutcomes,
          metadataSourceType \in MetadataSourceTypes, a \in AttemptInputs :
          hook = [NoHook EXCEPT !.pc = "called",
                                !.sourceType = sourceType,
                                !.metadataSourceType = metadataSourceType,
                                !.eventType = eventType,
                                !.fetch = outcome,
                                !.attempts = a]

WebhookNext ==
    \/ WebhookStep
    \/ SettleWebhook

WebhookSpec == WebhookInit /\ [][WebhookNext]_vars

(* ------------------------------- claims -------------------------------- *)

\* the lock ids a release request may carry: every id handed out so far
\* and one that never was
LockIdInputs == 1..(MaxLockIds + 1)

\* C1: while the stored lock of a document belongs to W1 and has
\* expiresAt > now, an acquire-lock by another worker W2 is answered 409
\* with W1's workerId, lockType and expiresAt, and the storage is unchanged.
C1_MutualExclusion ==
    \A i \in Insts, d \in Docs, w2 \in Workers, lt \in LockTypes, ttl \in TtlInputs :
        LET st   == storage[i]
            held == st.lock[d]
            r    == AcquireLock(st, d, lt, ttl, w2, now, nextLockId)
        IN  (held # NoLock /\ held.workerId # w2 /\ held.expiresAt > now)
            => /\ r.status = 409
               /\ r.body.success = FALSE
               /\ r.body.existingLock = [workerId  |-> held.workerId,
                                         lockType  |-> held.lockType,
                                         expiresAt |-> held.expiresAt]
               /\ r.storage = st

\* an acquire-lock was answered 409 and the holder's lock is still live
C1_Witness ==
    /\ last.op = "acquire-lock" /\ last.status = 409 /\ last.found = "other"
    /\ \E d \in Docs : storage[Coord].lock[d] # NoLock
                       /\ storage[Coord].lock[d].expiresAt > now

\* C3: an acquire-lock by the worker holding an unexpired lock is granted
\* with action "extended"; the one record of the document stays, with
\* expiresAt = now + ttlSeconds (in ms) and lockId, acquiredAt, lockType
\* unchanged whatever lockType the request carries.
C3_ReacquireExtends ==
    \A i \in Insts, d \in Docs, w \in Workers, lt \in LockTypes, ttl \in TtlInputs :
        LET st   == storage[i]
            held == st.lock[d]
            r    == AcquireLock(st, d, lt, ttl, w, now, nextLockId)
            secs == IF ttl = <<>> THEN 300 ELSE ttl[1]
        IN  (held # NoLock /\ held.workerId = w /\ held.expiresAt > now)
            => /\ r.status = 200 /\ r.body.success /\ r.body.action = "extended"
               /\ r.body.lock = r.storage.lock[d]
               /\ r.storage.lock[d].expiresAt  = now + secs * 1000
               /\ r.storage.lock[d].lockId     = held.lockId
               /\ r.storage.lock[d].acquiredAt = held.acquiredAt
               /\ r.storage.lock[d].lockType   = held.lockType
               /\ r.storage.lock[d].workerId   = held.workerId
               /\ r.storage.lock[d].documentId = held.documentId
               /\ \A e \in Docs \ {d} : r.storage.lock[e] = st.lock[e]
               /\ r.storage.hash = st.hash

\* a lock was extended some time after it was acquired
C3_Witness ==
    /\ last.op = "acquire-lock" /\ last.action = "extended" /\ last.found = "own"
    /\ \E d \in Docs : /\ storage[Coord].lock[d] # NoLock
                       /\ storage[Coord].lock[d].acquiredAt < now
                       /\ storage[Coord].lock[d].expiresAt > now

C5_ExpiredLockReclaimed ==
    \A i \in Insts, d \in Docs, w \in Workers, lt \in LockTypes, ttl \in TtlInputs :
        LET st   == storage[i]
            held == st.lock[d]
            r    == AcquireLock(st, d, lt, ttl, w, now, nextLockId)
            secs == IF ttl = <<>> THEN 300 ELSE ttl[1]
        IN  (held # NoLock /\ held.expiresAt <= now)
            => /\ r.status = 200 /\ r.body.success /\ r.body.action = "acquired"
               /\ r.body.lock = r.storage.lock[d]
               /\ r.body.lock.lockId # held.lockId
               /\ \A e \in Docs : st.lock[e] # NoLock
                                  => r.body.lock.lockId # st.lock[e].lockId
               /\ r.body.lock.workerId = w
               /\ r.body.lock.lockType = lt
               /\ r.body.lock.acquiredAt = now
               /\ r.body.lock.expiresAt = now + secs * 1000

\* an expired record that no cleanup reaped was replaced by a new lock
C5_Witness ==
    /\ last.op = "acquire-lock" /\ last.action = "acquired"
    /\ last.found = "expired"

\* C6: check-lock answers locked=true with the stored lock exactly when a
\* record with expiresAt > now exists, which is exactly when an acquire-lock
\* by a worker other than the holder is answered 409; a record with
\* expiresAt <= now is reported locked=false; the storage is unchanged.
C6_CheckLockAgrees ==
    \A i \in Insts, d \in Docs :
        LET st   == storage[i]
            held == st.lock[d]
            c    == CheckLock(st, d, now)
        IN  /\ c.status = 200
            /\ c.storage = st
            /\ c.body.locked <=> (held # NoLock /\ held.expiresAt > now)
            /\ c.body.locked => c.body.lock = held
            /\ \A w \in Workers, lt \in LockTypes, ttl \in TtlInputs :
                  (held = NoLock \/ held.workerId # w)
                  => (c.body.locked <=>
                        AcquireLock(st, d, lt, ttl, w, now, nextLockId).status = 409)

\* check-lock found a record whose expiresAt is exactly now
C6_Witness ==
    /\ last.op = "check-lock" /\ last.status = 200 /\ last.found = "expired"
    /\ \E d \in Docs : /\ storage[Coord].lock[d] # NoLock
                       /\ storage[Coord].lock[d].expiresAt = now

\* C7: after Deduplicate(D1, H) was the first request for H, a later
\* Deduplicate(D2, H) with D2 # D1 answers isDuplicate=true,
\* existingDocumentId=D1, action="skip", whatever was served in between.
C7_SecondDocumentIsDuplicate ==
    \A i \in Insts, h \in Hashes, d2 \in Docs :
        LET d1 == firstDedup[i][h]
            r  == Deduplicate(storage[i], d2, h)
        IN  (d1 # NoDoc /\ d1 # d2)
            => /\ r.body.isDuplicate
               /\ r.body.existingDocumentId = d1
               /\ r.body.action = "skip"

\* a second document presented a hash and was answered "skip"
C7_Witness ==
    /\ last.op = "deduplicate" /\ last.action = "skip" /\ last.found = "other"
    /\ \E h \in Hashes : firstDedup[Coord][h] # NoDoc

C2_NoConcurrentProcessing ==
    \A m \in Msgs, k \in Msgs :
        (m # k /\ msg[m].id = msg[k].id) => ~(HoldsLock(m) /\ HoldsLock(k))

\* C10: of two messages with the same text, different document ids and
\* forceReprocess false, processed one after the other, the second returns
\* success with action skipped_duplicate naming the first id and makes no
\* embedding, blob-store or vector-index call.
C10_SecondSubmissionSkipped ==
    \A m \in Msgs, k \in Msgs :
        (/\ k \in inv[m].after
         /\ inv[k].result.success /\ inv[k].result.action = ""
         /\ msg[k].text = msg[m].text
         /\ msg[k].id # msg[m].id
         /\ ~msg[k].forceReprocess /\ ~msg[m].forceReprocess
         /\ inv[m].pc = "done")
        => /\ inv[m].result.success
           /\ inv[m].result.action = "skipped_duplicate"
           /\ inv[m].result.existingDocumentId = msg[k].id
           /\ inv[m].calls = [embed |-> 0, blob |-> 0, vector |-> 0]

\* C11: UpdateState shallow-merges: every top-level field absent from the
\* update keeps its stored value, every field present in it (lastUpdatedAt
\* aside) takes the update's value, and no other field appears; a stored
\* processing state updated with {documentId, status: completed} keeps its
\* progress object and differs only in status and lastUpdatedAt.
C11_ShallowMerge ==
    \A i \in Insts, d \in Docs : \A u \in StateUpdates(d) :
        LET st       == storage[i]
            existing == st.state[d]
            r        == UpdateState(st, u, now)
            written  == r.storage.state[d]
            had      == IF existing = NoState THEN {} ELSE DOMAIN existing
        IN  /\ r.status = 200 /\ r.body.success /\ r.body.state = written
            /\ DOMAIN written = had \cup DOMAIN u \cup {"lastUpdatedAt"}
            /\ \A k \in DOMAIN u \ {"lastUpdatedAt"} : written[k] = u[k]
            /\ \A k \in had \ (DOMAIN u \cup {"lastUpdatedAt"}) :
                  written[k] = existing[k]
            /\ ({"status", "progress"} \subseteq had
                /\ existing.status = "processing"
                /\ u = StatusOnlyUpdate(d))
               => /\ written.progress = existing.progress
                  /\ written.status = "completed"
                  /\ \A k \in had \ {"status", "lastUpdatedAt"} :
                        written[k] = existing[k]
            /\ \A e \in Docs \ {d} : r.storage.state[e] = st.state[e]
            /\ r.storage.lock = st.lock /\ r.storage.hash = st.hash

\* a status-only update was merged over a stored processing state: the
\* record is completed and still carries the progress of the embedding step
C11_Witness ==
    /\ last.op = "update-state" /\ last.found = "present"
    /\ {"status", "progress"} \subseteq DOMAIN storage[Coord].state["d1"]
    /\ storage[Coord].state["d1"].status = "completed"
    /\ storage[Coord].state["d1"].progress.currentStep = "embedding"
    /\ storage[Coord].state["d1"].lastUpdatedAt > 0

\* C12: the lastUpdatedAt of a stored ProcessingState is the coordinator's
\* clock at the UpdateState that wrote it, whatever lastUpdatedAt the update
\* carried: no stored value is ahead of the clock, every write stores the
\* present clock, and so a write never lowers the lastUpdatedAt of a document.
C12_ServerAssignedClock ==
    \A i \in Insts, d \in Docs :
        LET st       == storage[i]
            existing == st.state[d]
        IN  /\ existing # NoState => existing.lastUpdatedAt <= now
            /\ \A u \in StateUpdates(d) :
                  LET written == UpdateState(st, u, now).storage.state[d]
                  IN  /\ written.lastUpdatedAt = now
                      /\ existing # NoState
                         => written.lastUpdatedAt >= existing.lastUpdatedAt

\* a record made of updates that carried nothing but a lastUpdatedAt of
\* their own was rewritten, and holds the clock, which is neither of the
\* values the callers sent
C12_Witness ==
    /\ last.op = "update-state" /\ last.found = "present"
    /\ storage[Coord].state["d1"] # NoState
    /\ DOMAIN storage[Coord].state["d1"] = {"documentId", "lastUpdatedAt"}
    /\ storage[Coord].state["d1"].lastUpdatedAt = now
    /\ now \notin ClientClocks

\* C13: Cleanup deletes no lock with expiresAt > now and no processing
\* state whose lastUpdatedAt is not older than 7 days, whatever locks,
\* states and hashes are stored.
C13_CleanupKeepsLive ==
    \A i \in Insts :
        LET st == storage[i]
            r  == Cleanup(st, now)
        IN  \A d \in Docs :
               /\ (st.lock[d] # NoLock /\ st.lock[d].expiresAt > now)
                  => r.storage.lock[d] = st.lock[d]
               /\ (st.state[d] # NoState
                   /\ st.state[d].lastUpdatedAt >= now - RetentionMs)
                  => r.storage.state[d] = st.state[d]

\* a cleanup deleted an old state and left an unexpired lock and a recent
\* state, next to a hash, in the storage
C13_Witness ==
    /\ last.op = "cleanup" /\ last.found = "reaped"
    /\ \E d \in Docs : /\ storage[Coord].lock[d] # NoLock
                       /\ storage[Coord].lock[d].expiresAt > now
    /\ \E d \in Docs : /\ storage[Coord].state[d] # NoState
                       /\ storage[Coord].state[d].lastUpdatedAt >= now - RetentionMs
    /\ \E h \in Hashes : storage[Coord].hash[h] # NoDoc

\* C14: a deletion made by a cleanup in progress never removes a record
\* that is live when the deletion executes: a lock with expiresAt > now or
\* a state not older than 7 days, written after the cleanup listed the
\* storage, survives every step of that cleanup.
C14_CleanupRechecks ==
    [][(scan.pc = "deleting" /\ scan' # scan)
       => \A d \in Docs :
             /\ (storage[Coord].lock[d] # NoLock
                 /\ storage[Coord].lock[d].expiresAt > now)
                => storage'[Coord].lock[d] = storage[Coord].lock[d]
             /\ (storage[Coord].state[d] # NoState
                 /\ storage[Coord].state[d].lastUpdatedAt >= now - RetentionMs)
                => storage'[Coord].state[d] = storage[Coord].state[d]]_vars

\* C15: when the administrative cleanup has completed, the coordinator of
\* no document holds a lock with expiresAt <= now or a state older than
\* 7 days.
C15_AdminCleanupReaps ==
    last.op = "cleanup"
    => \A d \in Docs :
          LET st == storage[getCoordinator(d)]
          IN  /\ st.lock[d] # NoLock => st.lock[d].expiresAt > now
              /\ st.state[d] # NoState
                 => st.state[d].lastUpdatedAt >= now - RetentionMs

\* the ack() and retry() calls made on the messages of the batch
Acks == {i \in DOMAIN disp : disp[i] = <<"ack">>}
Retries == {i \in DOMAIN disp : disp[i] = <<"retry">>}

\* C16: no message of a batch on a known queue ever gets a second
\* disposition, and when the handler returns every message has exactly one,
\* ack or retry; for document-ingestion the handler then reports
\* successCount + failureCount = totalMessages, with one retry for each
\* message whose processor threw or failed retryably.
C16_OneDispositionEach ==
    delivery.queue \in Queues
    => /\ \A i \in DOMAIN disp : Len(disp[i]) <= 1
       /\ \A i \in DOMAIN disp : stage[i] = "done" <=> Len(disp[i]) = 1
       /\ handler.pc = "returned"
          => /\ Acks \cup Retries = 1..delivery.size
             /\ Acks \cap Retries = {}
             /\ delivery.queue = "document-ingestion"
                => /\ handler.successCount + handler.failureCount = delivery.size
                   /\ handler.successCount <= Cardinality(Acks)
                   /\ handler.failureCount >= Cardinality(Retries)

\* a document-ingestion batch of ten messages was handled: nine succeeded
\* and were acknowledged, one was given a retry
C16_Witness ==
    /\ delivery.queue = "document-ingestion"
    /\ delivery.size = 2 * IngestionConcurrency
    /\ handler.pc = "returned"
    /\ Cardinality(Acks) = delivery.size - 1
    /\ Cardinality(Retries) = 1
    /\ handler.successCount = delivery.size - 1
    /\ handler.failureCount = 1

\* C17: in the three handlers the disposition follows from the outcome of
\* the processor call alone: success gives ack, a failure with
\* error.retryable true gives retry, a failure with error.retryable false
\* gives ack, an exception gives retry, whatever message.attempts and
\* maxRetries are.
C17_DispositionByOutcome ==
    delivery.queue \in Queues
    => LET envelope == Envelope(delivery.queue, delivery.attempts)
       IN  /\ Disposition("success", envelope) = "ack"
           /\ Disposition("retryable", envelope) = "retry"
           /\ Disposition("terminal", envelope) = "ack"
           /\ Disposition("threw", envelope) = "retry"
           /\ \A o \in Outcomes, a \in AttemptInputs, q \in Queues :
                 Disposition(o, envelope) = Disposition(o, Envelope(q, a))

\* a message delivered more often than any maxRetries was given a retry,
\* and another of the same batch an ack
C17_Witness ==
    /\ delivery.queue \in Queues
    /\ \A q \in Queues : delivery.attempts > Envelope(q, delivery.attempts).maxRetries
    /\ Retries # {}
    /\ Acks # {}

\* C18: for a batch of a queue that is none of the three, the dispatcher
\* acknowledges every message once, calls no processor and fails with an
\* 'Unsupported queue' error.
C18_UnknownQueueAcked ==
    (delivery.queue \notin Queues /\ handler.pc # "called")
    => /\ handler.pc = "threw"
       /\ handler.error = "Unsupported queue"
       /\ handler.invoked = 0
       /\ \A i \in DOMAIN disp : disp[i] = <<"ack">> /\ stage[i] = "queued"

\* the dispatcher failed on a batch of several messages of an unknown queue
C18_Witness ==
    /\ delivery.queue = UnknownQueue
    /\ delivery.size > 1
    /\ handler.pc = "threw"
    /\ Acks = 1..delivery.size

\* the messages whose processor was called and that have no disposition yet
InFlight == {i \in DOMAIN stage : stage[i] = "running"}

\* C19: of one batch, at most min(batchSize, 5) document-ingestion
\* messages, min(batchSize, 10) webhook messages and 1 batch-reprocessing
\* message are in flight at any instant.
C19_PeakConcurrency ==
    /\ Cardinality(InFlight) <= delivery.size
    /\ delivery.queue = "document-ingestion" => Cardinality(InFlight) <= 5
    /\ delivery.queue = "webhook-processing" => Cardinality(InFlight) <= 10
    /\ delivery.queue = "batch-reprocessing" => Cardinality(InFlight) <= 1

\* a batch larger than the limit of its queue has exactly the limit in
\* flight, the rest still queued
C19_Witness ==
    /\ delivery.queue = "webhook-processing"
    /\ delivery.size > 10
    /\ Cardinality(InFlight) = 10
    /\ \E i \in DOMAIN stage : stage[i] = "queued"

\* the group of message i: consecutive groups of the concurrency limit,
\* in batch order
GroupOf(i) ==
    IF delivery.queue = "document-ingestion"
    THEN (i - 1) \div (IF delivery.size < 5 THEN delivery.size ELSE 5)
    ELSE (i - 1) \div (IF delivery.size < 10 THEN delivery.size ELSE 10)

\* C20: in the concurrent queues a message is started only when every
\* message of every earlier group has received its ack or retry, whatever
\* the outcomes of those were.
C20_GroupsInOrder ==
    delivery.queue \in {"document-ingestion", "webhook-processing"}
    => \A i \in DOMAIN stage, j \in DOMAIN stage :
          (GroupOf(i) < GroupOf(j) /\ stage[j] # "queued")
          => stage[i] = "done" /\ Len(disp[i]) = 1

\* the second group of a document-ingestion batch is running after a
\* message of the first group was given a retry
C20_Witness ==
    /\ delivery.queue = "document-ingestion"
    /\ \E i \in DOMAIN stage, j \in DOMAIN stage :
          /\ GroupOf(i) < GroupOf(j)
          /\ stage[j] = "running"
          /\ disp[i] = <<"retry">>

\* C21: a successful ingestion of a document whose text splits into n
\* chunks (n = 1 when the chunk size exceeds the text, n = the number of
\* words with one word per chunk) has made exactly n embedding calls, n blob
\* writes and n vector upserts, returns chunksProcessed =
\* embeddingsGenerated = n, and leaves the state completed at 100 percent
\* and the document unlocked.
C21_SuccessfulIngestion ==
    LET m == Solo
        d == msg[m].id
        st == storage[getCoordinator(d)]
        n == IF msg[m].chunkSize = <<1>> /\ msg[m].overlap = <<0>>
             THEN Len(msg[m].text) ELSE 1
    IN  (inv[m].pc = "done" /\ inv[m].result.success)
        => /\ inv[m].calls = [embed |-> n, blob |-> n, vector |-> n]
           /\ inv[m].result.chunksProcessed = n
           /\ inv[m].result.embeddingsGenerated = n
           /\ st.state[d] # NoState
           /\ st.state[d].status = "completed"
           /\ st.state[d].progress.percentage = 100
           /\ st.lock[d] = NoLock

\* "hello world" was ingested as two chunks
C21_Witness ==
    /\ inv[Solo].pc = "done" /\ inv[Solo].result.success
    /\ msg[Solo].text = Text1
    /\ inv[Solo].result.chunksProcessed = 2
    /\ inv[Solo].calls.vector = 2

C23_NoExceptionEscapes ==
    \A m \in Msgs : inv[m].pc # "threw"

\* C24: every update-state of an attempt, the one writing status failed
\* included, is issued after the attempt was granted the lock and before it
\* issued a release-lock: a step of an invocation that writes the state of
\* its document is taken with a granted lock and no release behind it.
C24_UpdatesInsideLock ==
    [][\A m \in Msgs :
          LET d == msg[m].id
              c == getCoordinator(d)
          IN  (inv'[m] # inv[m] /\ storage'[c].state[d] # storage[c].state[d])
              => /\ inv[m].lock # NoLock
                 /\ inv[m].released = <<>>]_vars

\* C25: the stored status of a document becomes completed or failed only
\* from a state of status processing written by the same attempt (the same
\* startedAt), never from no state or from a terminal state.
C25_TerminalOnlyFromProcessing ==
    [][\A d \in Docs :
          LET old == storage[getCoordinator(d)].state[d]
              new == storage'[getCoordinator(d)].state[d]
          IN  (new # old /\ new # NoState
               /\ new.status \in {"completed", "failed"})
              => /\ old # NoState
                 /\ old.status = "processing"
                 /\ old.startedAt = new.startedAt]_vars

\* C26: a stored terminal state (completed, failed, cancelled) is changed
\* only by a fresh processing cycle: no write replaces it by a state whose
\* startedAt is earlier than the stored startedAt.
C26_TerminalStateKept ==
    [][\A d \in Docs :
          LET old == storage[getCoordinator(d)].state[d]
              new == storage'[getCoordinator(d)].state[d]
          IN  (old # NoState /\ new # old
               /\ old.status \in {"completed", "failed", "cancelled"})
              => new.startedAt >= old.startedAt]_vars

\* C27: every ProcessingResult with success = false carries an error
\* {code, message, retryable}; in particular the result of a batch-reprocess
\* message in which at least one document failed has an error field.
C27_FailureCarriesError ==
    (job.pc \in {"returned", "settled"} /\ ~job.result.success)
    => job.result.error # NoErrorField

\* C28: when processBatchReprocess returns, successCount + failureCount is
\* the number of ids of the payload, every id was processed exactly once
\* and in order, failureCount is the number of documents that failed, and
\* success is true exactly when failureCount = 0.
C28_BatchAggregation ==
    job.pc \in {"returned", "settled"}
    => LET results == job.result.metadata.batchResults
           failed == IF job.reason \in KnownReasons
                     THEN job.failing ELSE 1..Len(job.documentIds)
       IN  /\ results.successCount + results.failureCount = Len(job.documentIds)
           /\ job.processed = job.documentIds
           /\ results.failureCount = Cardinality(failed)
           /\ Len(results.errors) = results.failureCount
           /\ job.result.success <=> (results.failureCount = 0)

\* a payload of more ids than one sub-batch holds was processed, some of
\* its documents failed and some did not
C28_Witness ==
    /\ job.pc = "returned"
    /\ Len(job.documentIds) > ReprocessBatchSize
    /\ job.result.metadata.batchResults.failureCount = 2
    /\ job.result.metadata.batchResults.successCount
          = Len(job.documentIds) - 2
    /\ ~job.result.success

\* C29: when more than half of the documents of a sub-batch fail, the whole
\* sub-batch is counted as failed: the pass of the loop adds the size of
\* the sub-batch to failureCount.
C29_PartialFailure ==
    [][(job.pc = "loop" /\ job'.i # job.i)
       => LET batch == SubBatch(job.documentIds, job.i)
              failed == {k \in 1..Len(batch) :
                           ~processDocument(batch[k], job.reason,
                                            job.failing).success}
          IN  2 * Cardinality(failed) > Len(batch)
              => job'.failureCount - job.failureCount = Len(batch)]_vars

\* C30: a webhook message whose remote fetch failed yields a failed result
\* whose retryable is true exactly when the error message contains timeout,
\* rate limit, network, 502, 503 or 429, and the message is then retried
\* exactly when retryable is true, for every sourceType, website included.
C30_FetchFailureClassified ==
    (/\ hook.pc \in {"returned", "settled"}
     /\ hook.fetched > 0
     /\ hook.fetch # FetchOk)
    => /\ ~hook.result.success
       /\ hook.result.error # NoErrorField
       /\ hook.result.error.retryable
             <=> (PatternsIn(hook.fetch)
                     \cap {"timeout", "rate limit", "network", "502", "503",
                           "429"} # {})
       /\ hook.pc = "settled"
          => (hook.disposition = "retry" <=> hook.result.error.retryable)

\* C31: when acquire-lock answers 409, processDocumentIngestion returns
\* success = false with code LOCK_ACQUISITION_FAILED and retryable = true,
\* and has sent no deduplicate, update-state or release-lock request and
\* made no embedding, blob or vector call: no coordinator's storage (the
\* holder's lock, the states, the hash index) changes.
C31_ConflictReturnsEarly ==
    [][\A m \in Msgs :
          LET d == msg[m].id
              r == AcquireLock(storage[getCoordinator(d)], d, "processing",
                               <<LockTtlSeconds>>, WorkerOf(msg[m].batch),
                               now, nextLockId)
          IN  (inv[m].pc = "start" /\ inv'[m] # inv[m] /\ r.status = 409)
              => /\ inv'[m].pc = "done"
                 /\ ~inv'[m].result.success
                 /\ inv'[m].result.code = "LOCK_ACQUISITION_FAILED"
                 /\ inv'[m].result.retryable
                 /\ inv'[m].calls = [embed |-> 0, blob |-> 0, vector |-> 0]
                 /\ inv'[m].released = <<>>
                 /\ inv'[m].lock = NoLock
                 /\ storage' = storage
                 /\ firstDedup' = firstDedup]_vars

\* an invocation was refused the lock while the invocation of another
\* batch for the same document holds it and has written a state
C31_Witness ==
    \E m \in Msgs, k \in Msgs :
       /\ inv[m].pc = "done"
       /\ inv[m].result.code = "LOCK_ACQUISITION_FAILED"
       /\ msg[k].id = msg[m].id /\ msg[k].batch # msg[m].batch
       /\ HoldsLock(k)
       /\ storage[getCoordinator(msg[m].id)].state[msg[m].id] # NoState

C32_ForcedWitness ==
    /\ inv[Solo].pc = "done" /\ inv[Solo].result.success
    /\ msg[Solo].forceReprocess
    /\ firstDedup[getCoordinator("d1")][ContentHash(msg[Solo].text)] = "d2"
    /\ inv[Solo].calls.vector >= 1

C34_UpdateStateFrame ==
    \A d \in Docs :
       \A u \in StateUpdates(d) :
          LET st == storage[Coord]
              r == UpdateState(st, u, now)
          IN  /\ r.status = 200 /\ r.body.success
              /\ r.storage.state[d] # NoState
              /\ r.storage.lock = st.lock
              /\ r.storage.hash = st.hash
              /\ \A other \in Docs \ {d} :
                    r.storage.state[other] = st.state[other]

\* update-state was served for a document whose lock is held by a worker;
\* the other document has a state, and the instance a hash record
C34_Witness ==
    /\ last.op = "update-state" /\ last.status = 200
    /\ storage[Coord].lock["d1"] # NoLock
    /\ storage[Coord].lock["d1"].expiresAt > now
    /\ storage[Coord].state["d1"] # NoState
    /\ storage[Coord].state["d1"].lastUpdatedAt = now
    /\ storage[Coord].state["d2"] # NoState
    /\ storage[Coord].state["d2"].lastUpdatedAt < now
    /\ storage[Coord].hash["h1"] = "d1"

\* C35: a stored state carries nothing of an earlier attempt: a state of
\* status processing or completed has no error, and a state of status
\* processing or failed has no completedAt.
C35_NoLeftovers ==
    \A d \in Docs :
       LET state == storage[getCoordinator(d)].state[d]
       IN  state # NoState
           => /\ state.status \in {"processing", "completed"}
                 => "error" \notin DOMAIN state
              /\ state.status \in {"processing", "failed"}
                 => "completedAt" \notin DOMAIN state

\* C36: every state update of an attempt that does not fail writes the
\* percentage of its step: 0 at preprocessing, 25 at chunking, 50 at
\* embedding, the integer nearest to 50 + 40 (i + 1) / n after chunk i of n
\* (90 after the last chunk), 100 at completion; the percentage is within
\* 0..100 and not below the one stored before.
C36_PercentageSequence ==
    [][LET d == msg[Solo].id
           c == getCoordinator(d)
           before == storage[c].state[d]
           after == storage'[c].state[d]
           pc == inv[Solo].pc
           i == inv[Solo].i
           n == inv[Solo].chunks
           p == after.progress.percentage
       IN  (after # before /\ after.status # "failed")
           => /\ p \in 0..100
              /\ before # NoState => before.progress.percentage <= p
              /\ pc = "preprocessing" => before = NoState /\ p = 0
              /\ pc = "chunking" => p = 25
              /\ pc = "embedding" => p = 50
              /\ pc = "progress"
                 => /\ n >= 1 /\ i \in 0..(n - 1)
                    /\ 2 * n * p - n <= 2 * (50 * n + 40 * (i + 1))
                    /\ 2 * (50 * n + 40 * (i + 1)) < 2 * n * p + n
                    /\ i = n - 1 => p = 90
                    /\ inv'[Solo].pc = IF i = n - 1 THEN "finalize" ELSE "embed"
              /\ pc = "finalize" => p = 100 /\ before.progress.percentage = 90
              /\ pc \in {"preprocessing", "chunking", "embedding", "progress",
                         "finalize"}]_vars

\* an attempt over three chunks ran to its end
C36_Witness ==
    /\ inv[Solo].pc = "done"
    /\ inv[Solo].result.success
    /\ inv[Solo].chunks = 3
    /\ inv[Solo].i = 3
    /\ storage[getCoordinator(msg[Solo].id)].state[msg[Solo].id]
          .progress.percentage = 100

\* C37: an acquire-lock by the worker that holds an unexpired lock never
\* stores an earlier expiresAt than the one it found, whatever ttlSeconds
\* it carries.
C37_ReacquireNeverShortens ==
    \A i \in Insts, d \in Docs, w \in Workers, lt \in LockTypes, ttl \in TtlInputs :
        LET st   == storage[i]
            held == st.lock[d]
            r    == AcquireLock(st, d, lt, ttl, w, now, nextLockId)
        IN  (held # NoLock /\ held.workerId = w /\ held.expiresAt > now)
            => /\ r.storage.lock[d] # NoLock
               /\ r.storage.lock[d].expiresAt >= held.expiresAt

\* C38: a webhook with eventType moved, of any of the four source types,
\* has made the processor queue the deletion of the old resource and then
\* the new document for processing when processWebhookSync has returned.
C38_MovedDeletesAndRequeues ==
    (/\ hook.pc \in {"returned", "settled"}
     /\ hook.sourceType \in SourceTypes
     /\ hook.eventType = "moved")
    => hook.queued = <<"deletion", "processing">>

\* C39: an acquire-lock, release-lock or update-state for document d served
\* by instance i leaves the lock record and the state record of every other
\* document of that instance, and every record of every other instance, as
\* they were.
C39_PerDocumentIndependence ==
    [][\A a \in Addressed :
          LET i == a[1]
              d == a[2]
              OthersKept ==
                  \A j \in Insts, e \in Docs :
                     (j # i \/ e # d)
                     => /\ storage'[j].lock[e] = storage[j].lock[e]
                        /\ storage'[j].state[e] = storage[j].state[e]
          IN  /\ (\E w \in Workers :
                     AcquireLockReq(i, d, "processing", Omitted, w))
                 => OthersKept
              /\ (\E id \in 1..MaxLockIds, w \in Workers :
                     ReleaseLockReq(i, d, id, w))
                 => OthersKept
              /\ UpdateStateReq(i, StatusOnlyUpdate(d)) => OthersKept]_vars

\* a lock of one document was released in an instance that holds a lock of
\* the same worker and a state for the other document, and the other
\* instance holds records too
C39_Witness ==
    /\ last.op = "release-lock" /\ last.status = 200
    /\ \E i \in Docs, d \in Docs, e \in Docs, j \in Docs, w \in Workers :
          /\ d # e /\ i # j
          /\ storage[i].lock[d] = NoLock
          /\ storage[i].state[d] # NoState
          /\ storage[i].lock[e] # NoLock
          /\ storage[i].lock[e].workerId = w
          /\ storage[i].state[e] # NoState
          /\ storage[j].state[j] # NoState

\* C40: the loop of chunkText ends for every chunkSize and overlap: a pass
\* that does not leave the loop has moved i forward, so that at most one
\* pass per word is made and the invocation goes on to its result.
C40_ChunkLoopAdvances ==
    [][(inv[Solo].pc = "chunkloop" /\ inv'[Solo].pc = "chunkloop")
       => /\ inv'[Solo].i > inv[Solo].i
          /\ inv'[Solo].chunks <= Len(msg[Solo].text)]_vars

=============================================================================
